---- MODULE Spec2Model ----
(***************************************************************************)
(* Walk-forward backtester of bigdig/hft (src/hft/backtester.py).          *)
(*                                                                         *)
(* Three specifications over one set of variables:                         *)
(*   SpecBacktest  the rolling loop of backtest(px, config), one loop      *)
(*                 iteration per step;                                     *)
(*   SpecTrade     trade(btdf, config);                                    *)
(*   SpecPnl       pnl(btdf, config) followed by summary(btdf, config).    *)
(*                                                                         *)
(* Conventions.  A pandas table is a sequence of records (its rows, in     *)
(* table order); a row's index label is its field idx.  A possibly missing *)
(* number is NaN (the empty tuple) or <<v>>.  A real number that the code  *)
(* gets by a division is kept exact as a fraction [num, den], den > 0.     *)
(* Python's 0-based list index i is position i + 1 of a sequence.          *)
(***************************************************************************)
EXTENDS Integers, Sequences, FiniteSets, TLC

VARIABLES
    px,             \* backtest: the input tick table
    config,         \* the configuration record handed to every function
    pc,             \* position of the running function
    dates,          \* backtest: sorted distinct dates of px
    cursor,         \* backtest: index the for loop hands out next
    date,           \* backtest: the evaluation day of the last iteration
    train,          \* backtest: the training snapshot of the last iteration
    evaluated,      \* backtest: the days logged 'Backtesting on', in order
    btdf,           \* the tick-level table (backtest's output, trade's and pnl's in/out)
    fitting_stats,  \* backtest: the day-level diagnostics table
    exception,      \* the exception that left the running function, or "none"
    res             \* summary: the summary record

vars == <<px, config, pc, dates, cursor, date, train, evaluated, btdf,
          fitting_stats, exception, res>>

----------------------------------------------------------------------------
(* Bounds of the model *)

MaxRows == 3
MaxDate == 3
MaxTrainingPeriod == 2

----------------------------------------------------------------------------
(* Values *)

NaN == <<>>
Val(v) == <<v>>
IsNaN(a) == a = NaN
Num(a) == a[1]

\* NaN-propagating arithmetic of numpy / pandas
Mul(a, b) == IF IsNaN(a) \/ IsNaN(b) THEN NaN ELSE Val(Num(a) * Num(b))
Add(a, b) == IF IsNaN(a) \/ IsNaN(b) THEN NaN ELSE Val(Num(a) + Num(b))
Sub(a, b) == IF IsNaN(a) \/ IsNaN(b) THEN NaN ELSE Val(Num(a) - Num(b))
Abs(n) == IF n < 0 THEN -n ELSE n

\* Python's seq[i]
At(seq, i) == seq[i + 1]

RECURSIVE SumSeq(_)
SumSeq(s) == IF s = <<>> THEN 0 ELSE s[1] + SumSeq(Tail(s))

RECURSIVE SortedList(_)
\* list(set(...)) followed by .sort(): the ascending list of a set of numbers
SortedList(S) ==
    IF S = {} THEN <<>>
    ELSE LET m == CHOOSE a \in S : \A b \in S : a <= b
         IN <<m>> \o SortedList(S \ {m})

DateSet(table) == {table[k].date : k \in 1..Len(table)}

----------------------------------------------------------------------------
(* backtest(px, config)                                                    *)

\* One feature and one response column; each may be missing in a row.
Obs == {[x |-> NaN,    y |-> Val(1)],
        [x |-> Val(0), y |-> Val(1)],
        [x |-> Val(1), y |-> Val(1)],
        [x |-> Val(1), y |-> NaN]}

\* Faulty variant: the window closed at the evaluation day (<= date).
training_snapshot_lookahead(p, ds, i, tp) ==
    SelectSeq(p, LAMBDA r : r.date >= At(ds, i - tp) /\ r.date <= At(ds, i))

\* The rows of px[(px.date >= dates[i - training_period]) & (px.date < date)]
training_snapshot(p, ds, i, tp) ==
    SelectSeq(p, LAMBDA r : r.date >= At(ds, i - tp) /\ r.date < At(ds, i))

\* One candidate per logical predictor here: the selected column list.
select_feature(tr, cfg) == <<"x">>

\* train[features + [y_column]].dropna()
dropna(tr) == SelectSeq(tr, LAMBDA r : ~IsNaN(r.x) /\ ~IsNaN(r.y))

\* fit(train, features, config): no-intercept least squares on one regressor,
\* beta = sum(x*y) / sum(x*x).  LinearRegression.fit rejects an empty sample
\* (ValueError); np.linalg.inv(x'x) rejects a singular matrix (LinAlgError).
\* Neither is caught in fit.
fit(tr, features, cfg) ==
    LET regr_data == dropna(tr)
        n   == Len(regr_data)
        p   == Len(features)
        x   == [k \in 1..n |-> Num(regr_data[k].x)]
        y   == [k \in 1..n |-> Num(regr_data[k].y)]
        sxy == SumSeq([k \in 1..n |-> x[k] * y[k]])
        sxx == SumSeq([k \in 1..n |-> x[k] * x[k]])
    IN  IF n = 0 THEN [raised |-> "ValueError"]
        ELSE IF sxx = 0 THEN [raised |-> "LinAlgError"]
        ELSE [raised |-> "none",
              model  |-> [num |-> sxy, den |-> sxx],
              stats  |-> [beta |-> [num |-> sxy, den |-> sxx],
                          df_1 |-> p - 1, df_2 |-> n - p]]

\* Twice the median of a non-empty list of numbers (an integer).
Median2(s) ==
    LET o == SortSeq(s, LAMBDA a, b : a < b)
        n == Len(o)
    IN  IF n % 2 = 1 THEN 2 * o[(n + 1) \div 2]
        ELSE o[n \div 2] + o[n \div 2 + 1]

\* x_new.fillna(x_new.median()), in half units; NaN when the whole column is.
fillna_median(px_i) ==
    LET present == SelectSeq(px_i, LAMBDA r : ~IsNaN(r.x))
        xs      == [k \in 1..Len(present) |-> Num(present[k].x)]
    IN  [k \in 1..Len(px_i) |->
            IF ~IsNaN(px_i[k].x) THEN Val(2 * Num(px_i[k].x))
            ELSE IF Len(xs) = 0 THEN NaN
            ELSE Val(Median2(xs))]

\* px.loc[px.date == date, ...]
eval_snapshot(p, d) == SelectSeq(p, LAMBDA r : r.date = d)

\* lines 76-83: dates = sorted(set(px.date)); empty outputs
backtest_begin ==
    /\ pc = "start"
    /\ dates' = SortedList(DateSet(px))
    /\ cursor' = config.training_period
    /\ btdf' = <<>>
    /\ fitting_stats' = <<>>
    /\ pc' = "loop"
    /\ UNCHANGED <<px, config, date, train, evaluated, exception, res>>

\* lines 85-106: one iteration of  for i in range(training_period, len(dates))
backtest_iter ==
    /\ pc = "loop"
    /\ cursor < Len(dates)
    /\ LET d        == At(dates, cursor)
           tr       == training_snapshot(px, dates, cursor, config.training_period)
           features == select_feature(tr, config)
           f        == fit(tr, features, config)
           px_i     == eval_snapshot(px, d)
           x_new    == fillna_median(px_i)
       IN  /\ date' = d
           /\ train' = tr
           /\ evaluated' = Append(evaluated, d)
           /\ IF f.raised # "none"
              THEN /\ pc' = "raised"
                   /\ exception' = f.raised
                   /\ UNCHANGED <<cursor, btdf, fitting_stats>>
              ELSE IF \E k \in 1..Len(x_new) : IsNaN(x_new[k])
              THEN \* model.predict rejects NaN input
                   /\ pc' = "raised"
                   /\ exception' = "ValueError"
                   /\ UNCHANGED <<cursor, btdf, fitting_stats>>
              ELSE /\ btdf' = btdf \o
                        [k \in 1..Len(px_i) |->
                            [idx |-> px_i[k].idx, date |-> px_i[k].date,
                             x |-> px_i[k].x, y |-> px_i[k].y,
                             alpha |-> [num |-> f.model.num * Num(x_new[k]),
                                        den |-> f.model.den * 2]]]
                   /\ fitting_stats' = Append(fitting_stats,
                        [date |-> d, beta |-> f.stats.beta,
                         df_1 |-> f.stats.df_1, df_2 |-> f.stats.df_2])
                   /\ cursor' = cursor + 1
                   /\ UNCHANGED <<pc, exception>>
    /\ UNCHANGED <<px, config, dates, res>>

\* lines 107-108: the loop is exhausted; return btdf, fitting_stats
backtest_return ==
    /\ pc = "loop"
    /\ cursor >= Len(dates)
    /\ pc' = "returned"
    /\ UNCHANGED <<px, config, dates, cursor, date, train, evaluated, btdf,
                   fitting_stats, exception, res>>

DefaultConfig ==
    [training_period |-> 1,
     trade_trigger_threshold |-> <<0, 0>>,
     start_second |-> 1, end_second |-> 3,
     holding_period |-> 1,
     use_mid |-> FALSE,
     dynamic_unwinding |-> FALSE,
     unwinding_tick_move_upper_bound |-> 2,
     unwinding_tick_move_lower_bound |-> -2,
     tick_size |-> 1,
     transaction_fee |-> 0]

\* Input tables: at most MaxRows ticks, ordered by date, RangeIndex labels.
InitBacktest ==
    /\ \E n \in 0..MaxRows :
         \E ds \in [1..n -> 1..MaxDate], ob \in [1..n -> Obs] :
            /\ \A k \in 1..(n - 1) : ds[k] <= ds[k + 1]
            /\ px = [k \in 1..n |->
                        [idx |-> k - 1, date |-> ds[k], x |-> ob[k].x, y |-> ob[k].y]]
    /\ config \in {[DefaultConfig EXCEPT !.training_period = tp] :
                        tp \in 1..MaxTrainingPeriod}
    /\ pc = "start"
    /\ dates = <<>>
    /\ cursor = 0
    /\ date = 0
    /\ train = <<>>
    /\ evaluated = <<>>
    /\ btdf = <<>>
    /\ fitting_stats = <<>>
    /\ exception = "none"
    /\ res = NaN

NextBacktest == backtest_begin \/ backtest_iter \/ backtest_return

SpecBacktest == InitBacktest /\ [][NextBacktest]_vars

----------------------------------------------------------------------------
(* Tables handed to trade and pnl: the tick rows of the evaluated days with *)
(* their alpha, as backtest appends them (ascending date, table order kept, *)
(* index labels of px kept).                                                *)

TradeDates == {1, 2}
Seconds == {1, 2, 3}
Mids == {10, 12}
Alphas == {[num |-> -1, den |-> 1], [num |-> 0, den |-> 1],
           [num |-> 1, den |-> 2], [num |-> 1, den |-> 1]}
Thresholds == {-1, 0, 1}
HoldingPeriods == {-1, 0, 1, 2}
TickSizes == {1, 2}

\* comparisons of a fraction with an integer
Gt(a, t) == a.num > t * a.den
Lt(a, t) == a.num < t * a.den

RECURSIVE TickOrder(_)
\* the (date, second) keys of a set, ordered by date, then by second
TickOrder(S) ==
    IF S = {} THEN <<>>
    ELSE LET m == CHOOSE a \in S : \A b \in S :
                    a[1] < b[1] \/ (a[1] = b[1] /\ a[2] <= b[2])
         IN <<m>> \o TickOrder(S \ {m})

Layouts(D) ==
    {TickOrder(S) : S \in {T \in SUBSET (D \X Seconds) :
                                Cardinality(T) \in 1..MaxRows}}

Tick(k, key, m, a) ==
    [idx |-> 2 * k, date |-> key[1], second |-> key[2],
     b1 |-> m - 1, s1 |-> m + 1, mid |-> m, alpha |-> a]

----------------------------------------------------------------------------
(* trade(btdf, config)                                                     *)

\* Faulty variant: the trading window taken open at both ends.
trade_row_open_window(r, cfg) ==
    LET t0 == 0
        t1 == IF Gt(r.alpha, cfg.trade_trigger_threshold[2]) THEN 1 ELSE t0
        t2 == IF Lt(r.alpha, cfg.trade_trigger_threshold[1]) THEN -1 ELSE t1
        t3 == IF r.second >= cfg.end_second THEN 0 ELSE t2
        t4 == IF r.second <= cfg.start_second THEN 0 ELSE t3
    IN  t4

\* lines 113-117 for one row: the four masked assignments, in order
trade_row(r, cfg) ==
    LET t0 == 0
        t1 == IF Gt(r.alpha, cfg.trade_trigger_threshold[2]) THEN 1 ELSE t0
        t2 == IF Lt(r.alpha, cfg.trade_trigger_threshold[1]) THEN -1 ELSE t1
        t3 == IF r.second > cfg.end_second THEN 0 ELSE t2
        t4 == IF r.second < cfg.start_second THEN 0 ELSE t3
    IN  t4

trade(tbl, cfg) ==
    [k \in 1..Len(tbl) |-> [trade |-> trade_row(tbl[k], cfg)] @@ tbl[k]]

trade_call ==
    /\ pc = "backtested"
    /\ btdf' = trade(btdf, config)
    /\ pc' = "traded"
    /\ UNCHANGED <<px, config, dates, cursor, date, train, evaluated,
                   fitting_stats, exception, res>>

TradeConfigs ==
    {[DefaultConfig EXCEPT !.trade_trigger_threshold = <<lo, hi>>,
                           !.start_second = s, !.end_second = e] :
        lo \in Thresholds, hi \in Thresholds, s \in Seconds, e \in Seconds}

InitTrade ==
    /\ \E lay \in Layouts({1}) : \E al \in [1..Len(lay) -> Alphas] :
            btdf = [k \in 1..Len(lay) |-> Tick(k, lay[k], 10, al[k])]
    \* the bands are (lower, upper): lower <= upper
    /\ config \in {c \in TradeConfigs :
                      c.trade_trigger_threshold[1] <= c.trade_trigger_threshold[2]}
    /\ pc = "backtested"
    /\ px = <<>>
    /\ dates = <<>>
    /\ cursor = 0
    /\ date = 0
    /\ train = <<>>
    /\ evaluated = <<>>
    /\ fitting_stats = <<>>
    /\ exception = "none"
    /\ res = NaN

NextTrade == trade_call

SpecTrade == InitTrade /\ [][NextTrade]_vars

----------------------------------------------------------------------------
(* pnl(btdf, config)                                                       *)

RECURSIVE Concat(_)
\* list.extend over the per-date lists
Concat(ss) == IF ss = <<>> THEN <<>> ELSE ss[1] \o Concat(Tail(ss))

\* Faulty variant: side='right', the first position whose element is > v.
searchsorted_right(a, v) == Cardinality({k \in 1..Len(a) : a[k] <= v})

\* np.searchsorted(a, v) on an ascending a: the first position whose element
\* is >= v (0-based; len(a) when there is none)
searchsorted(a, v) == Cardinality({k \in 1..Len(a) : a[k] < v})

\* lines 127-130 for one date: bti.second.values[close_index], clamped at the end
fixed_close_of_date(bti, cfg) ==
    LET second == [j \in 1..Len(bti) |-> bti[j].second]
    IN  [k \in 1..Len(bti) |->
            LET ci    == searchsorted(second, bti[k].second + cfg.holding_period)
                close == IF ci = Len(bti) THEN Len(bti) - 1 ELSE ci
            IN  Val(At(second, close))]

\* Faulty variant: the dates walked in descending order.
get_fixed_period_close_second_descending(tbl, cfg) ==
    LET ds == SortedList(DateSet(tbl))
    IN  Concat([j \in 1..Len(ds) |->
            fixed_close_of_date(
                SelectSeq(tbl, LAMBDA r : r.date = ds[Len(ds) + 1 - j]), cfg)])

\* for date in sorted(set(btdf.date)): matched_close_second.extend(...)
get_fixed_period_close_second(tbl, cfg) ==
    LET ds == SortedList(DateSet(tbl))
    IN  Concat([j \in 1..Len(ds) |->
            fixed_close_of_date(SelectSeq(tbl, LAMBDA r : r.date = ds[j]), cfg)])

\* tick_change >= upper or <= lower, tick_change = (mid - mid[i]) / tick_size
\* (tick_size > 0: the comparison is made on the numerators)
breaches(diff, cfg) ==
    \/ diff >= cfg.unwinding_tick_move_upper_bound * cfg.tick_size
    \/ diff <= cfg.unwinding_tick_move_lower_bound * cfg.tick_size

\* Faulty variant: the last breaching row (idx[-1]) instead of the first.
dynamic_hold_last_breach(bti, cfg, i) ==
    LET open == CHOOSE r \in {bti[k] : k \in 1..Len(bti)} : r.idx = i
        cond == SelectSeq(bti, LAMBDA r : breaches(r.mid - open.mid, cfg) /\ r.idx > i)
    IN  IF Len(cond) > 0 THEN cond[Len(cond)].idx ELSE bti[Len(bti)].idx

\* dynamic_hold(bti, config, i): i and the result are index labels
dynamic_hold(bti, cfg, i) ==
    LET open == CHOOSE r \in {bti[k] : k \in 1..Len(bti)} : r.idx = i
        cond == SelectSeq(bti, LAMBDA r : breaches(r.mid - open.mid, cfg) /\ r.idx > i)
    IN  IF Len(cond) > 0 THEN cond[1].idx ELSE bti[Len(bti)].idx

\* lines 150-152 for one date: bti.second[close_index], NaN where trade == 0
dynamic_close_of_date(bti, cfg) ==
    [k \in 1..Len(bti) |->
        IF bti[k].trade = 0 THEN NaN
        ELSE LET label == dynamic_hold(bti, cfg, bti[k].idx)
                 hit   == CHOOSE r \in {bti[j] : j \in 1..Len(bti)} : r.idx = label
             IN  Val(hit.second)]

get_dynamic_period_close_second(tbl, cfg) ==
    LET ds == SortedList(DateSet(tbl))
    IN  Concat([j \in 1..Len(ds) |->
            dynamic_close_of_date(SelectSeq(tbl, LAMBDA r : r.date = ds[j]), cfg)])

\* utils.left_join(btdf, dummy_bt, ['date', 'matched_close_second']): the
\* first row of the re-keyed table with the row's date and matched second;
\* no match leaves the close columns missing.
left_join(tbl, dummy_bt) ==
    [k \in 1..Len(tbl) |->
        LET m == SelectSeq(dummy_bt, LAMBDA q :
                    q.date = tbl[k].date /\
                    Val(q.matched_close_second) = tbl[k].matched_close_second)
        IN  IF Len(m) = 0
            THEN [close_b1 |-> NaN, close_s1 |-> NaN, close_mid |-> NaN] @@ tbl[k]
            ELSE [close_b1 |-> Val(m[1].close_b1), close_s1 |-> Val(m[1].close_s1),
                  close_mid |-> Val(m[1].close_mid)] @@ tbl[k]]

Bool(b) == IF b THEN 1 ELSE 0

\* lines 159-162
open_price(r, cfg) ==
    IF cfg.use_mid THEN r.mid
    ELSE Bool(r.trade > 0) * r.s1 + Bool(r.trade < 0) * r.b1

\* Faulty variant: the close taken on the opening side of the book.
close_price_swapped(r, cfg) ==
    IF cfg.use_mid THEN r.close_mid
    ELSE Add(Mul(Val(Bool(r.trade > 0)), r.close_s1),
             Mul(Val(Bool(r.trade < 0)), r.close_b1))

\* lines 170-173
close_price(r, cfg) ==
    IF cfg.use_mid THEN r.close_mid
    ELSE Add(Mul(Val(Bool(r.trade > 0)), r.close_b1),
             Mul(Val(Bool(r.trade < 0)), r.close_s1))

pnl(tbl, cfg) ==
    LET matched == IF cfg.dynamic_unwinding
                   THEN get_dynamic_period_close_second(tbl, cfg)
                   ELSE get_fixed_period_close_second(tbl, cfg)
        \* the list is assigned to the column by position
        t1 == [k \in 1..Len(tbl) |->
                 [open_price |-> open_price(tbl[k], cfg),
                  matched_close_second |-> matched[k]] @@ tbl[k]]
        dummy_bt == [k \in 1..Len(tbl) |->
                 [date |-> tbl[k].date, matched_close_second |-> tbl[k].second,
                  close_b1 |-> tbl[k].b1, close_s1 |-> tbl[k].s1,
                  close_mid |-> tbl[k].mid]]
        t2 == left_join(t1, dummy_bt)
        t3 == [k \in 1..Len(t2) |->
                 [close_price |-> close_price(t2[k], cfg)] @@ t2[k]]
        t4 == [k \in 1..Len(t3) |->
                 [pnl |-> Mul(Val(t3[k].trade),
                              Sub(t3[k].close_price, Val(t3[k].open_price)))] @@ t3[k]]
        t5 == [k \in 1..Len(t4) |->
                 [transaction_fee |->
                    Mul(Val(cfg.transaction_fee * Abs(t4[k].trade)),
                        Add(Val(t4[k].open_price), t4[k].close_price))] @@ t4[k]]
    IN  [k \in 1..Len(t5) |->
            [net_pnl |-> Sub(t5[k].pnl, t5[k].transaction_fee)] @@ t5[k]]

pnl_call ==
    /\ pc = "traded"
    /\ btdf' = pnl(btdf, config)
    /\ pc' = "priced"
    /\ UNCHANGED <<px, config, dates, cursor, date, train, evaluated,
                   fitting_stats, exception, res>>

----------------------------------------------------------------------------
(* summary(btdf, config)                                                   *)

\* utils.safe_divide: 0 when the denominator is 0
safe_divide(a, b) == IF b = 0 THEN [num |-> 0, den |-> 1] ELSE [num |-> a, den |-> b]

summary(tbl, cfg) ==
    LET trades == SelectSeq(tbl, LAMBDA r : r.trade # 0)
        n      == Len(trades)
        days   == Cardinality(DateSet(trades))
        total_pnl == SumSeq([k \in 1..n |-> Num(trades[k].pnl)])
        total_net == SumSeq([k \in 1..n |-> Num(trades[k].net_pnl)])
    IN  IF n = 0
        \* line 217: sum(mask) / trades.shape[0] is 0 / 0 on Python ints
        THEN [raised |-> "ZeroDivisionError"]
        ELSE [raised |-> "none",
              value |->
                [training_period |-> cfg.training_period,
                 trade_trigger_threshold |-> cfg.trade_trigger_threshold[2],
                 holding_period |-> cfg.holding_period,
                 use_mid |-> cfg.use_mid,
                 n_trades |-> n,
                 n_trading_days |-> days,
                 n_trades_per_day |-> safe_divide(n, days),
                 winning_rate |->
                    [num |-> Len(SelectSeq(trades, LAMBDA r : Num(r.pnl) > 0)), den |-> n],
                 losing_rate |->
                    [num |-> Len(SelectSeq(trades, LAMBDA r : Num(r.pnl) < 0)), den |-> n],
                 net_winning_rate |->
                    [num |-> Len(SelectSeq(trades, LAMBDA r : Num(r.net_pnl) > 0)), den |-> n],
                 net_losing_rate |->
                    [num |-> Len(SelectSeq(trades, LAMBDA r : Num(r.net_pnl) < 0)), den |-> n],
                 total_pnl |-> total_pnl,
                 total_net_pnl |-> total_net,
                 avg_net_pnl_per_day |-> safe_divide(total_net, days),
                 avg_pnl_per_day |-> safe_divide(total_pnl, days)]]

summary_call ==
    /\ pc = "priced"
    /\ LET s == summary(btdf, config)
       IN  IF s.raised # "none"
           THEN /\ pc' = "raised"
                /\ exception' = s.raised
                /\ UNCHANGED res
           ELSE /\ pc' = "summarized"
                /\ res' = Val(s.value)
                /\ UNCHANGED exception
    /\ UNCHANGED <<px, config, dates, cursor, date, train, evaluated, btdf,
                   fitting_stats>>

PnlConfigs ==
    {[DefaultConfig EXCEPT !.holding_period = hp, !.use_mid = um] :
        hp \in HoldingPeriods, um \in BOOLEAN}
    \cup
    {[DefaultConfig EXCEPT !.dynamic_unwinding = TRUE, !.tick_size = ts,
                           !.use_mid = um, !.transaction_fee = 1] :
        ts \in TickSizes, um \in BOOLEAN}

\* Tables as trade() leaves them: alpha -1, 0 or 1 against the bands (0, 0)
\* with every second inside the trading window.
InitPnl ==
    /\ \E lay \in Layouts(TradeDates) :
         \E md \in [1..Len(lay) -> Mids], al \in [1..Len(lay) -> {-1, 0, 1}] :
            btdf = trade([k \in 1..Len(lay) |->
                            Tick(k, lay[k], md[k], [num |-> al[k], den |-> 1])],
                         DefaultConfig)
    /\ config \in PnlConfigs
    /\ pc = "traded"
    /\ px = <<>>
    /\ dates = <<>>
    /\ cursor = 0
    /\ date = 0
    /\ train = <<>>
    /\ evaluated = <<>>
    /\ fitting_stats = <<>>
    /\ exception = "none"
    /\ res = NaN

NextPnl == pnl_call \/ summary_call

SpecPnl == InitPnl /\ [][NextPnl]_vars

----------------------------------------------------------------------------
(* Properties                                                              *)

Rows(tbl) == 1..Len(tbl)
SameDate(tbl, k) == {j \in Rows(tbl) : tbl[j].date = tbl[k].date}
LastOfDate(tbl, k) == CHOOSE j \in SameDate(tbl, k) : \A q \in SameDate(tbl, k) : q <= j
Least(S) == CHOOSE j \in S : \A q \in S : j <= q
Ran == pc \in {"loop", "raised", "returned"} /\ evaluated # <<>>
Priced == pc \in {"priced", "summarized"}
Fixed == Priced /\ ~config.dynamic_unwinding
Dynamic == Priced /\ config.dynamic_unwinding

\* C1: the training snapshot handed to select_feature and fit for evaluation
\* day d = dates[i], i >= training_period, holds only rows dated strictly
\* before d, and the dates it covers are exactly the training_period dates
\* dates[i - training_period] .. dates[i - 1] of the sorted distinct dates.
C1_TrainingWindowNoLookAhead ==
    Ran =>
        LET k  == CHOOSE j \in 1..Len(dates) : dates[j] = date
            tp == config.training_period
        IN  /\ dates = SortedList(DateSet(px))
            /\ date \in DateSet(px)
            /\ k - 1 >= tp
            /\ \A j \in Rows(train) : train[j].date < date
            /\ \A j \in Rows(train) : \E q \in Rows(px) : px[q] = train[j]
            /\ DateSet(train) = {dates[j] : j \in (k - tp)..(k - 1)}
            /\ Cardinality(DateSet(train)) = tp

C1_Witness ==
    /\ pc = "loop"
    /\ Len(evaluated) = 1
    /\ config.training_period = 2
    /\ Cardinality(DateSet(train)) = 2
    /\ Len(btdf) > 0

\* C2: the cursor starts at training_period, advances one date per iteration
\* and ends after the last date: once backtest has ended, the days it worked
\* on are exactly dates[training_period], ..., dates[last], in that order, and
\* with no more than training_period dates both outputs are empty.
C2_EveryLaterDateEvaluated ==
    pc \in {"returned", "raised"} =>
        /\ evaluated = SubSeq(dates, config.training_period + 1, Len(dates))
        /\ (Len(dates) <= config.training_period =>
                btdf = <<>> /\ fitting_stats = <<>>)

\* C3: a fitting failure on one evaluation day does not abort backtest: no
\* exception leaves it, and the diagnostics table it returns has one row for
\* every evaluation day.
C3_FitFailureStaysLocal ==
    /\ exception = "none"
    /\ pc # "raised"
    /\ (pc = "returned" =>
            [k \in 1..Len(fitting_stats) |-> fitting_stats[k].date]
                = SubSeq(dates, config.training_period + 1, Len(dates)))

\* C4: fixed-horizon policy: a row's matched_close_second is the second of
\* the first tick of its own date whose second is >= the row's second +
\* holding_period, and the second of the date's last tick when there is none;
\* so it is >= second + holding_period or it is the date's last second.
C4_FixedCloseIsFirstTickAtOrAfter ==
    Fixed =>
        \A k \in Rows(btdf) :
            LET target == btdf[k].second + config.holding_period
                later  == {j \in SameDate(btdf, k) : btdf[j].second >= target}
                last   == btdf[LastOfDate(btdf, k)].second
                m      == btdf[k].matched_close_second
            IN  /\ m = IF later = {} THEN Val(last) ELSE Val(btdf[Least(later)].second)
                /\ (Num(m) >= target \/ Num(m) = last)

C4_Witness ==
    /\ Fixed
    /\ config.holding_period = 2
    /\ \E k \in Rows(btdf) :
          /\ btdf[k].second = 1
          /\ btdf[k].matched_close_second = Val(3)
    /\ \E k \in Rows(btdf) :
          /\ btdf[k].second = 2
          /\ btdf[k].matched_close_second = Val(3)

\* C5: dynamic-unwind policy: for a row with trade # 0 the matched close is
\* the first row of the same date strictly after it whose mid has moved, in
\* ticks, to the upper bound or beyond or to the lower bound or beyond; when
\* no later row of the date has (the date's last row included), it is the
\* date's last row.
C5_DynamicCloseIsFirstBreach ==
    Dynamic =>
        \A k \in Rows(btdf) :
            btdf[k].trade # 0 =>
                LET up   == config.unwinding_tick_move_upper_bound * config.tick_size
                    down == config.unwinding_tick_move_lower_bound * config.tick_size
                    hit  == {j \in SameDate(btdf, k) :
                                /\ j > k
                                /\ \/ btdf[j].mid - btdf[k].mid >= up
                                   \/ btdf[j].mid - btdf[k].mid <= down}
                    close == IF hit = {} THEN LastOfDate(btdf, k) ELSE Least(hit)
                IN  btdf[k].matched_close_second = Val(btdf[close].second)

C5_Witness ==
    /\ Dynamic
    /\ \E k \in Rows(btdf) :
          /\ btdf[k].trade # 0
          /\ k + 2 \in SameDate(btdf, k)
          /\ btdf[k].matched_close_second = Val(btdf[k + 1].second)
    /\ \E k \in Rows(btdf) :
          /\ btdf[k].trade # 0
          /\ k = LastOfDate(btdf, k)
          /\ btdf[k].matched_close_second = Val(btdf[k].second)

\* C6: trade() sets each row from that row alone: +1 above the upper band, -1
\* below the lower band, 0 between; 0 whenever the second is before
\* start_second or after end_second; a row at start_second or end_second
\* keeps its band value; trade is -1, 0 or +1.
C6_TradeIsBandThenWindow ==
    pc = "traded" =>
        \A k \in Rows(btdf) :
            LET r      == btdf[k]
                lower  == config.trade_trigger_threshold[1]
                upper  == config.trade_trigger_threshold[2]
                band   == IF r.alpha.num > upper * r.alpha.den THEN 1
                          ELSE IF r.alpha.num < lower * r.alpha.den THEN -1
                          ELSE 0
            IN  /\ r.trade \in {-1, 0, 1}
                /\ r.trade = IF r.second < config.start_second
                                \/ r.second > config.end_second
                             THEN 0 ELSE band

C6_Witness ==
    /\ pc = "traded"
    /\ config.start_second < config.end_second
    /\ \E k \in Rows(btdf) :
          btdf[k].second = config.end_second /\ btdf[k].trade = 1
    /\ \E k \in Rows(btdf) :
          btdf[k].second = config.start_second /\ btdf[k].trade = -1

\* The tick a row is closed at: the row of its date at its matched second.
CloseTick(k) ==
    CHOOSE j \in SameDate(btdf, k) : Val(btdf[j].second) = btdf[k].matched_close_second

\* C7: without use_mid a buy opens at the opening tick's s1 and closes at the
\* matched close tick's b1, a sell opens at b1 and closes at the close tick's
\* s1; with use_mid both prices are the mid of the respective tick.
C7_OpenAndClosePrices ==
    Priced =>
        \A k \in Rows(btdf) :
            LET r == btdf[k]
            IN  ~IsNaN(r.matched_close_second) =>
                    /\ \E j \in SameDate(btdf, k) :
                            Val(btdf[j].second) = r.matched_close_second
                    /\ (~config.use_mid /\ r.trade = 1 =>
                            /\ r.open_price = r.s1
                            /\ r.close_price = Val(btdf[CloseTick(k)].b1))
                    /\ (~config.use_mid /\ r.trade = -1 =>
                            /\ r.open_price = r.b1
                            /\ r.close_price = Val(btdf[CloseTick(k)].s1))
                    /\ (config.use_mid =>
                            /\ r.open_price = r.mid
                            /\ r.close_price = Val(btdf[CloseTick(k)].mid))

C7_Witness ==
    /\ Priced
    /\ ~config.use_mid
    /\ \E k \in Rows(btdf) :
          /\ btdf[k].trade = 1
          /\ CloseTick(k) # k
          /\ btdf[CloseTick(k)].mid # btdf[k].mid
    /\ \E k \in Rows(btdf) :
          /\ btdf[k].trade = -1
          /\ CloseTick(k) # k

\* C8: summary of a table without any nonzero trade returns a record whose
\* n_trades_per_day is 0, and no division by zero fails on the way.
C8_SummaryOfNoTrades ==
    (/\ pc \in {"summarized", "raised"}
     /\ config.holding_period >= 0
     /\ \A k \in Rows(btdf) : btdf[k].trade = 0) =>
        /\ exception = "none"
        /\ ~IsNaN(res)
        /\ Num(res).n_trades_per_day.num = 0

\* C9: after pnl every row with a matched close has matched_close_second >=
\* its own second, under either policy and any configuration pnl accepts (a
\* negative holding_period is rejected instead).
C9_CloseNotBeforeOpen ==
    Priced =>
        \A k \in Rows(btdf) :
            ~IsNaN(btdf[k].matched_close_second) =>
                Num(btdf[k].matched_close_second) >= btdf[k].second

\* C10: the list of matched closes, built date by date in ascending date
\* order, lands on the rows by position: the k-th row gets the close computed
\* from the ticks of its own date for its own place in that date.
C10_CloseListAlignsWithRows ==
    Priced =>
        /\ \A k \in 1..(Len(btdf) - 1) : btdf[k].date <= btdf[k + 1].date
        /\ \A k \in Rows(btdf) :
            LET bti == SelectSeq(btdf, LAMBDA r : r.date = btdf[k].date)
                j   == Cardinality({q \in SameDate(btdf, k) : q <= k})
                own == IF config.dynamic_unwinding
                       THEN dynamic_close_of_date(bti, config)
                       ELSE fixed_close_of_date(bti, config)
            IN  btdf[k].matched_close_second = own[j]

C10_Witness ==
    /\ Fixed
    /\ config.holding_period = 1
    /\ Len(btdf) = 3
    /\ btdf[1].date # btdf[2].date
    /\ btdf[1].second # btdf[2].second
    /\ btdf[1].matched_close_second # btdf[2].matched_close_second

====
